---------------------------- MODULE Spec2Model ----------------------------
(***************************************************************************)
(* PwnChain module engine (src/pwnchain_module.py): one Module instance    *)
(* per node of the execution tree, one thread per started instance, one    *)
(* thread pool list shared by the tree, and the root's                     *)
(* wait_until_complete.                                                    *)
(*                                                                         *)
(* Strings are sequences of one-character strings.  Some symbols stand for *)
(* more than one character of the Python text: "\\d" (the regex digit      *)
(* class), "\\n" (the escape backslash-n) and "\n" (the line terminator).   *)
(***************************************************************************)
EXTENDS Integers, Sequences, FiniteSets, TLC

(***************************************************************************)
(* Bounds of the model.                                                    *)
(***************************************************************************)
\* Longest output (in lines) the external tool "scan" may print.
MaxLines == 2

(***************************************************************************)
(* Strings.                                                                *)
(***************************************************************************)
DigitChars == <<"0", "1", "2", "3", "4", "5", "6", "7", "8", "9">>

Digits == {DigitChars[k] : k \in 1..10}

Whitespace == {" ", "\n"}

RECURSIVE IntToStr(_)
\* str(n) of a non-negative int.
IntToStr(n) ==
    IF n < 10 THEN <<DigitChars[n + 1]>>
    ELSE IntToStr(n \div 10) \o <<DigitChars[(n % 10) + 1]>>

\* A scope value is [str |-> chars] or [int |-> n]; str() of it.
Str(v) == IF "int" \in DOMAIN v THEN IntToStr(v.int) ELSE v.str

\* Index of the first occurrence of character c in s at or after from, 0 if none.
IndexOf(s, c, from) ==
    LET hits == {k \in from..Len(s) : s[k] = c}
    IN  IF hits = {} THEN 0 ELSE CHOOSE k \in hits : \A j \in hits : k <= j

RECURSIVE FormatFrom(_, _, _, _)
\* The scan of template.format(**var) from position k on; out is the text
\* produced so far.  step is the position and the text after the character
\* or the replacement field at k, worked out once before the scan goes on.
FormatFrom(template, k, var, out) ==
    IF k > Len(template) THEN [ok |-> TRUE, val |-> out]
    ELSE IF template[k] = "}" THEN [ok |-> FALSE, val |-> <<>>]
    ELSE LET close == IndexOf(template, "}", k + 1)
             field == SubSeq(template, k + 1, close - 1)
             step == IF template[k] # "{"
                     THEN [ok |-> TRUE, k |-> k + 1, out |-> Append(out, template[k])]
                     ELSE IF close = 0 \/ field \notin DOMAIN var
                     THEN [ok |-> FALSE, k |-> k, out |-> out]
                     ELSE [ok |-> TRUE, k |-> close + 1, out |-> out \o Str(var[field])]
         IN  CHOOSE result \in {IF s.ok THEN FormatFrom(template, s.k, var, s.out)
                                       ELSE [ok |-> FALSE, val |-> <<>>] : s \in {step}} :
                 TRUE

\* template.format(**var): every {name} replaced by str(var[name]).
\* KeyError for a name that var does not bind, ValueError for a lone brace.
format(template, var) ==
    CHOOSE result \in {FormatFrom(text, 1, scope, <<>>) :
                           text \in {template}, scope \in {var}} : TRUE

RECURSIVE split(_)
\* cmd.split(): the maximal runs of non-whitespace characters.
split(s) ==
    IF s = <<>> THEN <<>>
    ELSE IF Head(s) \in Whitespace THEN split(Tail(s))
    ELSE LET stops == {k \in 1..Len(s) : s[k] \in Whitespace}
             stop == IF stops = {} THEN Len(s) + 1
                     ELSE CHOOSE k \in stops : \A j \in stops : k <= j
         IN  <<SubSeq(s, 1, stop - 1)>> \o split(SubSeq(s, stop, Len(s)))

(***************************************************************************)
(* Regular expressions: literals, "." , "\\d" and capture groups.          *)
(***************************************************************************)
RECURSIVE CompileFrom(_, _, _, _, _)
\* Scan of the pattern source from position k: elems are the one-character
\* matchers read so far, open the stack of groups not yet closed (indexes
\* into groups), groups the [from, to] element ranges in order of "(".
CompileFrom(src, k, elems, open, groups) ==
    IF k > Len(src)
    THEN [ok |-> open = <<>>, elems |-> elems, groups |-> groups]
    ELSE IF src[k] = "("
    THEN CompileFrom(src, k + 1, elems, <<Len(groups) + 1>> \o open,
                     Append(groups, [from |-> Len(elems) + 1, to |-> 0]))
    ELSE IF src[k] = ")"
    THEN IF open = <<>> THEN [ok |-> FALSE, elems |-> elems, groups |-> groups]
         ELSE CompileFrom(src, k + 1, elems, Tail(open),
                          [groups EXCEPT ![Head(open)].to = Len(elems)])
    ELSE CompileFrom(src, k + 1, Append(elems, src[k]), open, groups)

\* re.compile(src); ok is FALSE where re.compile raises re.error.
re_compile(src) == CompileFrom(src, 1, <<>>, <<>>, <<>>)

\* Whether the one-character matcher e accepts character c.
ElemMatches(e, c) ==
    IF e = "." THEN c # "\n"
    ELSE IF e = "\\d" THEN c \in Digits
    ELSE e = c

\* compiled.match(line): a match at the start of the line (not a full match).
\* groups[k] is match.group(k).
re_match(compiled, line) ==
    LET n == Len(compiled.elems)
        hit == /\ n <= Len(line)
               /\ \A k \in 1..n : ElemMatches(compiled.elems[k], line[k])
    IN  [matched |-> hit,
         groups |-> IF hit
                    THEN [g \in 1..Len(compiled.groups) |->
                            SubSeq(line, compiled.groups[g].from, compiled.groups[g].to)]
                    ELSE <<>>]

(***************************************************************************)
(* eval(condition): the expressions the model's conditions use.            *)
(***************************************************************************)
TrueSrc == <<"T", "r", "u", "e">>

FalseSrc == <<"F", "a", "l", "s", "e">>

\* A quoted string literal 'text'.
IsQuoted(s) == Len(s) >= 2 /\ s[1] = "'" /\ s[Len(s)] = "'"

\* The value of the expression text src: True, False and 'a'=='b'; ok is
\* FALSE where eval raises (anything else).
EvalText(src) ==
    IF src = TrueSrc THEN [ok |-> TRUE, val |-> TRUE]
    ELSE IF src = FalseSrc THEN [ok |-> TRUE, val |-> FALSE]
    ELSE LET eqs == {k \in 1..(Len(src) - 1) : src[k] = "=" /\ src[k + 1] = "="}
         IN  IF eqs = {} THEN [ok |-> FALSE, val |-> FALSE]
             ELSE LET k == CHOOSE e \in eqs : \A j \in eqs : e <= j
                      lhs == SubSeq(src, 1, k - 1)
                      rhs == SubSeq(src, k + 2, Len(src))
                  IN  IF IsQuoted(lhs) /\ IsQuoted(rhs)
                      THEN [ok |-> TRUE, val |-> lhs = rhs]
                      ELSE [ok |-> FALSE, val |-> FALSE]

\* eval(src), with src evaluated once.
eval(src) == CHOOSE value \in {EvalText(text) : text \in {src}} : TRUE

(***************************************************************************)
(* Node definitions (the cfg dictionaries).  A definition is a record with *)
(* the keys the json gives it; an absent key is absent from the record.    *)
(***************************************************************************)
echo == <<"e", "c", "h", "o">>

scan == <<"s", "c", "a", "n">>

printf == <<"p", "r", "i", "n", "t", "f">>

foo == <<"f", "o", "o">>

v1 == <<"v", "1">>

v2 == <<"v", "2">>

v3 == <<"v", "3">>

v4 == <<"v", "4">>

\* "{name}"
Ph(name) == <<"{">> \o name \o <<"}">>

\* The reference fixture of the unit tests.
Fixture ==
    [name |-> <<"u">>,
     cmd |-> echo \o <<" ">> \o Ph(v1),
     vars |-> (v1 :> [str |-> foo]),
     patterns |-> <<[pattern |-> <<"(", "f", "o", ")", "o">>,
                     groups |-> <<v2>>,
                     log |-> Ph(v2)]>>,
     submodules |->
        [on_match |-> <<[name |-> <<"m">>,
                         cmd |-> echo \o <<" ">> \o Ph(v2)]>>,
         always |-> <<[name |-> <<"a">>,
                       cmd |-> echo \o <<" ">> \o Ph(v2) \o Ph(v3),
                       vars |-> (v3 :> [int |-> 42]),
                       patterns |-> <<[pattern |-> <<"(", "f", "o", "\\d", ")", "\\d">>,
                                       groups |-> <<v4>>,
                                       log |-> Ph(v4)]>>]>>],
     files |-> <<[name |-> <<"f", "1">>, type |-> "text",
                  content |-> <<"s", "o", "m", "e">>],
                 [name |-> <<"f", "2">>, type |-> "base64",
                  content |-> <<"c", "2", "9", "t", "Z", "Q", "=", "=">>]>>]

x == <<"x">>

y == <<"y">>

z == <<"z">>

nope == <<"n", "o", "p", "e">>

\* A wide tree: the tool's output decides how often the two patterns match.
\* "a(.)" matches both tool lines, "(a)c" only "ac"; m runs for x = b only,
\* d is disabled.
Wide ==
    [name |-> <<"w">>,
     cmd |-> scan,
     patterns |-> <<[pattern |-> <<"a", "(", ".", ")">>, groups |-> <<x>>],
                    [pattern |-> <<"(", "a", ")", "c">>, groups |-> <<y>>,
                     log |-> Ph(x) \o Ph(y)]>>,
     submodules |->
        [on_match |-> <<[name |-> <<"m">> \o Ph(x),
                         cmd |-> echo \o <<" ">> \o Ph(x),
                         condition |-> <<"'">> \o Ph(x) \o <<"'", "=", "=", "'", "b", "'">>]>>,
         always |-> <<[name |-> <<"d">>,
                       cmd |-> echo \o <<" ">> \o Ph(x),
                       enabled |-> FALSE,
                       condition |-> Ph(nope),
                       files |-> <<[name |-> <<"f">>, type |-> "text", content |-> <<"t">>]>>,
                       patterns |-> <<[pattern |-> <<".">>, groups |-> <<>>]>>,
                       submodules |-> [always |-> <<[name |-> <<"n">>, cmd |-> echo]>>]]>>]]

\* A deep tree: every level is started by the level above while it runs.
Deep ==
    [name |-> <<"r">>,
     cmd |-> echo \o <<" ", "a", "b">>,
     vars |-> (z :> [str |-> <<"0">>]),
     patterns |-> <<[pattern |-> <<"a", "(", ".", ")">>, groups |-> <<x>>,
                     log |-> Ph(x)]>>,
     submodules |->
        [on_match |-> <<[name |-> <<"m">>,
                         cmd |-> echo \o <<" ">> \o Ph(x) \o <<"c">>,
                         logfile |-> Ph(x),
                         patterns |-> <<[pattern |-> <<"(", "b", ")", "c">>,
                                         groups |-> <<z>>, log |-> Ph(z)]>>,
                         submodules |->
                            [on_match |-> <<[name |-> <<"g">>,
                                             cmd |-> echo \o <<" ">> \o Ph(x) \o Ph(z),
                                             vars |-> (x :> [str |-> <<"q">>]),
                                             submodules |->
                                                [always |-> <<[name |-> <<"h">>,
                                                               cmd |-> echo]>>]]>>]]>>,
         always |-> <<[name |-> <<"a">>,
                       cmd |-> echo \o <<" ">> \o Ph(x) \o Ph(z)]>>]]

\* The name of the first on-match child does not resolve.
BadOnMatchName ==
    [name |-> <<"r">>,
     cmd |-> echo \o <<" ", "a", "b">>,
     patterns |-> <<[pattern |-> <<"a", "(", ".", ")">>, groups |-> <<x>>, log |-> Ph(x)]>>,
     submodules |->
        [on_match |-> <<[name |-> Ph(nope), cmd |-> echo],
                        [name |-> <<"c">>, cmd |-> echo]>>,
         always |-> <<[name |-> <<"e">>, cmd |-> echo]>>]]

\* The name of the first always child does not resolve.
BadAlwaysName ==
    [name |-> <<"r">>,
     cmd |-> echo \o <<" ", "a", "b">>,
     submodules |->
        [always |-> <<[name |-> <<"b">> \o Ph(nope), cmd |-> echo],
                      [name |-> <<"c">>, cmd |-> echo]>>]]

\* Fatal errors while a matched line is handled: the capture name of the
\* first pattern does not resolve on "ab", the log message of the second
\* does not resolve on "ac".
MidStream ==
    [name |-> <<"r">>,
     cmd |-> scan,
     patterns |-> <<[pattern |-> <<"a", "(", "b", ")">>, groups |-> <<Ph(nope)>>],
                    [pattern |-> <<"a", "(", "c", ")">>, groups |-> <<x>>,
                     log |-> Ph(nope)]>>,
     submodules |->
        [on_match |-> <<[name |-> <<"m">>, cmd |-> echo]>>,
         always |-> <<[name |-> <<"e">>, cmd |-> echo]>>]]

\* Children that fail before their command is started, next to one that runs.
PreSpawn ==
    [name |-> <<"r">>,
     cmd |-> echo,
     submodules |->
        [always |-> <<[name |-> <<"1">>, cmd |-> echo,
                       condition |-> <<"m", "a", "y", "b", "e">>,
                       submodules |-> [always |-> <<[name |-> <<"n">>, cmd |-> echo]>>]],
                      [name |-> <<"2">>, cmd |-> echo,
                       files |-> <<[name |-> <<"f">>, type |-> "base64",
                                    content |-> <<"c", "2", "9">>]>>],
                      [name |-> <<"3">>, cmd |-> echo \o <<" ">> \o Ph(nope)],
                      [name |-> <<"4">>, cmd |-> echo,
                       patterns |-> <<[pattern |-> <<"(", "a">>, groups |-> <<x>>]>>],
                      [name |-> <<"5">>, cmd |-> echo]>>]]

\* Gates: conditions that hold, that do not, and that cannot be resolved.
Gates ==
    [name |-> <<"r">>,
     cmd |-> echo,
     vars |-> (y :> [str |-> <<"b">>]),
     submodules |->
        [always |-> <<[name |-> <<"t">>, cmd |-> echo, enabled |-> TRUE,
                       condition |-> TrueSrc],
                      [name |-> <<"f">>, cmd |-> echo, condition |-> FalseSrc,
                       submodules |-> [always |-> <<[name |-> <<"n">>, cmd |-> echo]>>]],
                      [name |-> <<"u">>, cmd |-> echo, condition |-> Ph(nope)],
                      [name |-> <<"q">>, cmd |-> echo,
                       condition |-> <<"'">> \o Ph(y) \o <<"'", "=", "=", "'", "c", "'">>]>>]]

\* Children that fail at provisioning, at the log file path, or at Popen.
Late ==
    [name |-> <<"r">>,
     cmd |-> echo,
     submodules |->
        [always |-> <<[name |-> <<"6">>, cmd |-> <<"n", "m", "a", "p">>],
                      [name |-> <<"7">>, cmd |-> echo,
                       files |-> <<[name |-> <<"f">>, type |-> "wget",
                                    content |-> <<"u">>]>>],
                      [name |-> <<"8">>, cmd |-> echo, logfile |-> Ph(nope)]>>]]

\* A root whose own name does not resolve.
BadRootName == [name |-> Ph(nope), cmd |-> echo]

\* A pattern source that names a variable the pattern before it captures:
\* x is "b" when the patterns are compiled and "c" once "ac" was matched.
Recapture ==
    [name |-> <<"r">>,
     cmd |-> scan,
     vars |-> (x :> [str |-> <<"b">>]),
     patterns |-> <<[pattern |-> <<"a", "(", ".", ")">>, groups |-> <<x>>],
                    [pattern |-> <<"a">> \o Ph(x), groups |-> <<>>, log |-> Ph(x)]>>]

\* Provisioned files: the root's command names its file, child c inherits
\* the path, child o provisions a file of its own under the same name and
\* hands its path on to p.
Provision ==
    [name |-> <<"r">>,
     cmd |-> echo \o <<" ">> \o Ph(<<"f">>),
     files |-> <<[name |-> <<"f">>, type |-> "text", content |-> <<"t">>]>>,
     submodules |->
        [always |-> <<[name |-> <<"c">>, cmd |-> echo \o <<" ">> \o Ph(<<"f">>)],
                      [name |-> <<"o">>, cmd |-> echo \o <<" ">> \o Ph(<<"f">>),
                       files |-> <<[name |-> <<"f">>, type |-> "text",
                                    content |-> <<"t">>]>>,
                       submodules |->
                          [always |-> <<[name |-> <<"p">>,
                                         cmd |-> echo \o <<" ">> \o Ph(<<"f">>)]>>]]>>]]

\* Log files: the root logs to "r"; an instance started on a match logs to
\* "l" followed by the text the match captured, which is "b" on both lines
\* of the root's output and takes the place of the "0" the root declares.
Logs ==
    [name |-> <<"r">>,
     cmd |-> printf \o <<" ", "a", "b", "\\n", "a", "b", "\\n">>,
     logfile |-> <<"r">>,
     vars |-> (x :> [str |-> <<"0">>]),
     patterns |-> <<[pattern |-> <<"a", "(", ".", ")">>, groups |-> <<x>>]>>,
     submodules |->
        [on_match |-> <<[name |-> <<"m">>,
                         cmd |-> echo \o <<" ">> \o Ph(x),
                         logfile |-> <<"l">> \o Ph(x)]>>]]

\* The trees the model runs, each with the save_logfiles argument of run().
Scenarios ==
    <<[cfg |-> Fixture, save_logfiles |-> FALSE],
      [cfg |-> Wide, save_logfiles |-> FALSE],
      [cfg |-> Deep, save_logfiles |-> FALSE],
      [cfg |-> BadOnMatchName, save_logfiles |-> FALSE],
      [cfg |-> BadAlwaysName, save_logfiles |-> FALSE],
      [cfg |-> MidStream, save_logfiles |-> FALSE],
      [cfg |-> PreSpawn, save_logfiles |-> FALSE],
      [cfg |-> Gates, save_logfiles |-> FALSE],
      [cfg |-> Late, save_logfiles |-> TRUE],
      [cfg |-> BadRootName, save_logfiles |-> FALSE],
      [cfg |-> Recapture, save_logfiles |-> FALSE],
      [cfg |-> Provision, save_logfiles |-> FALSE],
      [cfg |-> Logs, save_logfiles |-> TRUE]>>

\* The programs Popen finds on the PATH.
Programs == {echo, printf, scan}

\* The lines the external tool "scan" may print.
ToolLines == {<<"a", "b", "\n">>, <<"a", "c", "\n">>}

RECURSIVE Join(_)
\* " ".join(words)
Join(words) ==
    IF words = <<>> THEN <<>>
    ELSE IF Len(words) = 1 THEN words[1]
    ELSE words[1] \o <<" ">> \o Join(Tail(words))

RECURSIVE LinesOf(_)
\* The lines "for line in proc.stdout" yields for the text a process
\* prints: each ends with its "\n", but for a last line without one.
LinesOf(text) ==
    IF text = <<>> THEN <<>>
    ELSE LET end == IndexOf(text, "\n", 1)
         IN  IF end = 0 THEN <<text>>
             ELSE <<SubSeq(text, 1, end)>> \o LinesOf(SubSeq(text, end + 1, Len(text)))

\* What printf prints for a format without conversions: the format with
\* each escape "\\n" (one symbol of the model) replaced by a line feed.
Unescape(fmt) == [k \in DOMAIN fmt |-> IF fmt[k] = "\\n" THEN "\n" ELSE fmt[k]]

\* The outputs (sequences of lines) the process started with argv may print:
\* echo prints its arguments on one line, printf its format, scan prints
\* what it finds.
Exec(argv) ==
    IF argv[1] = echo THEN {<<Join(Tail(argv)) \o <<"\n">>>>}
    ELSE IF argv[1] = printf
    THEN {IF Len(argv) < 2 THEN <<>> ELSE LinesOf(Unescape(argv[2]))}
    ELSE UNION {[1..n -> ToolLines] : n \in 0..MaxLines}

(***************************************************************************)
(* State.                                                                  *)
(***************************************************************************)
VARIABLES
    scenario,     \* index into Scenarios of the tree being run
    config,       \* the tree as it is in memory: the cfg the root was constructed with
    inst,         \* the Module instances, in order of construction
    var,          \* the scope dictionaries: var[inst[i].var] is instance i's self.var
    thread_pool,  \* the pool lists: thread_pool[inst[i].thread_pool] is i's self.thread_pool
    main_pc,      \* position of the caller of run() and wait_until_complete()
    wait_idx,     \* index of the list iterator of wait_until_complete
    wait_thread,  \* the thread wait_until_complete is joining, 0 if none
    log,          \* the info records the log handler received, in order
    fs            \* the files of the log directory: fs[path] is the text of the file

vars == <<scenario, config, inst, var, thread_pool, main_pc, wait_idx, wait_thread, log, fs>>

RECURSIVE DefAt(_, _)
\* The definition a path of [modgroup, k] steps leads to from def.
DefAt(def, path) ==
    IF path = <<>> THEN def
    ELSE DefAt(def.submodules[Head(path).modgroup][Head(path).k], Tail(path))

\* self.cfg of instance i.
Cfg(i) == DefAt(config, inst[i].cfg)

\* self.var of instance i.
SelfVar(i) == var[inst[i].var]

Instances == 1..Len(inst)

\* The thread of instance i has ended (returned or raised).
Terminated(i) == inst[i].pc \in {"done", "skipped", "failed"}

\* cfg["submodules"][modgroup], empty when either key is absent.
Submods(cfg, modgroup) ==
    IF "submodules" \in DOMAIN cfg /\ modgroup \in DOMAIN cfg.submodules
    THEN cfg.submodules[modgroup]
    ELSE <<>>

(***************************************************************************)
(* Module.__init__                                                         *)
(***************************************************************************)
\* VarRef without the copy ("self.var = var"): the dictionary of the parent.
VarRefShared(new, parent_ref) == parent_ref

\* The dictionary a new instance's self.var names: a fresh copy (var.copy()).
VarRef(new, parent_ref) == new

\* InitialVar with the precedence reversed: an inherited name wins over the
\* node's own declaration.
InitialVarInheritedFirst(cfg, inherited) ==
    IF "vars" \in DOMAIN cfg THEN inherited @@ cfg.vars ELSE inherited

\* self.var after the constructor: the inherited scope overlaid with cfg["vars"].
InitialVar(cfg, inherited) ==
    IF "vars" \in DOMAIN cfg THEN cfg.vars @@ inherited ELSE inherited

\* The list a new instance's self.thread_pool names: the one it is given.
PoolRef(new, given) == given

\* The instance record after __init__ and, in run(), thread.start().
\* var0 keeps the scope the constructor left, spawned whether Popen has
\* started the command, calls the run_submodules calls made so far;
\* logfile_fp is "none", "open" or "closed", buf the text written to
\* logfile_fp that has not reached the file yet, warned whether the warning
\* of exec_cmd was logged; deleted tells that the files of tmp_files are
\* gone.
NewInstance(path, parent, via, line, pattern, ref, pool, name, scope) ==
    [cfg |-> path, parent |-> parent, via |-> via, line |-> line, pattern |-> pattern,
     var |-> ref, thread_pool |-> pool, name |-> name, var0 |-> scope,
     pc |-> "pending", err |-> "none", registered |-> FALSE, late |-> FALSE,
     spawned |-> FALSE, logfile_fp |-> "none", buf |-> <<>>, warned |-> FALSE,
     cmd |-> <<>>, patterns |-> <<>>, logfile |-> <<>>, lines |-> <<>>,
     cursor |-> 0, pidx |-> 0, modgroup |-> "none", sub |-> 0, child |-> 0,
     tmp_files |-> <<>>, deleted |-> FALSE, calls |-> <<>>]

\* append that loses an update: the item takes the place of the last one.
append_over_last(list, item) ==
    IF list = <<>> THEN <<item>> ELSE [list EXCEPT ![Len(list)] = item]

\* list.append(item): one bytecode-level call, atomic between threads.
append(list, item) == Append(list, item)

RECURSIVE AfterWriteToVars(_, _, _)
\* AfterWrite for an instance whose self.var is the "vars" dictionary of
\* its definition itself ("self.var = self.cfg['vars']").
AfterWriteToVars(tree, path, scope) ==
    IF path = <<>>
    THEN IF "vars" \in DOMAIN tree THEN [tree EXCEPT !.vars = scope] ELSE tree
    ELSE [tree EXCEPT !.submodules[Head(path).modgroup][Head(path).k] =
                          AfterWriteToVars(@, Tail(path), scope)]

\* The tree in memory after an instance of the definition at path has
\* written to its self.var, which holds scope now: self.var is a dictionary
\* of the instance's own (var.copy() or {}), the values of cfg["vars"] are
\* assigned into it one by one, and cfg is only read.
AfterWrite(tree, path, scope) == tree

\* The heap of scopes after dictionary ref is set to scope.
Store(heap, ref, scope) ==
    [r \in DOMAIN heap \cup {ref} |-> IF r = ref THEN scope ELSE heap[r]]

(***************************************************************************)
(* The caller: Module(cfg=root).run(save_logfiles); wait_until_complete()  *)
(***************************************************************************)
\* Module(cfg=root) and the first half of run(): thread.start().
RootRun ==
    /\ main_pc = "init"
    /\ LET cfg == config
           scope == InitialVar(cfg, <<>>)
           name == format(cfg.name, scope)
       IN  IF name.ok
           THEN /\ inst' = <<NewInstance(<<>>, 0, "root", 0, 0, 1, 1, name.val, scope)>>
                /\ var' = Store(var, 1, scope)
                /\ thread_pool' = Store(thread_pool, 1, <<>>)
                /\ main_pc' = "run"
           ELSE /\ main_pc' = "raised"
                /\ UNCHANGED <<inst, var, thread_pool>>
    /\ config' = AfterWrite(config, <<>>, InitialVar(config, <<>>))
    /\ UNCHANGED <<scenario, wait_idx, wait_thread, log, fs>>

\* The second half of run(): self.thread_pool.append(thread).
RootAppend ==
    /\ main_pc = "run"
    /\ thread_pool' = [thread_pool EXCEPT ![inst[1].thread_pool] = append(@, 1)]
    /\ inst' = [inst EXCEPT ![1].registered = TRUE]
    /\ main_pc' = "wait"
    /\ UNCHANGED <<scenario, config, var, wait_idx, wait_thread, log, fs>>

\* IterHasNext as it would be over a copy of the list made when run()
\* returned, with the root's thread alone in it.
IterHasNextOfCopy(idx, pool) == idx < 1 /\ idx < Len(pool)

\* Whether the list iterator of "for thread in self.thread_pool" has a next element.
IterHasNext(idx, pool) == idx < Len(pool)

\* wait_until_complete: the for loop takes the next thread of the list.
WaitNext ==
    /\ main_pc = "wait"
    /\ wait_thread = 0
    /\ IterHasNext(wait_idx, thread_pool[inst[1].thread_pool])
    /\ wait_thread' = thread_pool[inst[1].thread_pool][wait_idx + 1]
    /\ wait_idx' = wait_idx + 1
    /\ UNCHANGED <<scenario, config, inst, var, thread_pool, main_pc, log, fs>>

\* JoinReturns that waits for a return of the thread's target: it never
\* returns for a thread an exception has ended.
JoinReturnsOnReturn(t) == inst[t].pc \in {"done", "skipped"}

\* thread.join() returns once the thread has ended.
JoinReturns(t) == Terminated(t)

\* wait_until_complete: thread.join().
WaitJoin ==
    /\ main_pc = "wait"
    /\ wait_thread # 0
    /\ JoinReturns(wait_thread)
    /\ wait_thread' = 0
    /\ UNCHANGED <<scenario, config, inst, var, thread_pool, main_pc, wait_idx, log, fs>>

\* wait_until_complete: the iterator is exhausted; self.thread_pool = [].
WaitReturn ==
    /\ main_pc = "wait"
    /\ wait_thread = 0
    /\ ~IterHasNext(wait_idx, thread_pool[inst[1].thread_pool])
    /\ inst' = [inst EXCEPT ![1].thread_pool = 0]
    /\ main_pc' = "returned"
    /\ UNCHANGED <<scenario, config, var, thread_pool, wait_idx, wait_thread, log, fs>>

(***************************************************************************)
(* run_worker, up to the output loop.                                      *)
(***************************************************************************)
\* should_not_run with the test of the condition inverted.
should_not_run_inverted(cfg, scope) ==
    IF "enabled" \in DOMAIN cfg /\ ~cfg.enabled THEN "skip"
    ELSE IF "condition" \in DOMAIN cfg
    THEN LET condition == format(cfg.condition, scope)
         IN  IF ~condition.ok THEN "raise"
             ELSE LET value == eval(condition.val)
                  IN  IF ~value.ok THEN "raise"
                      ELSE IF value.val THEN "skip" ELSE "run"
    ELSE "run"

\* should_not_run without its test of "enabled".
should_not_run_ignoring_enabled(cfg, scope) ==
    IF "condition" \in DOMAIN cfg
    THEN LET condition == format(cfg.condition, scope)
         IN  IF ~condition.ok THEN "raise"
             ELSE LET value == eval(condition.val)
                  IN  IF ~value.ok THEN "raise"
                      ELSE IF value.val THEN "run" ELSE "skip"
    ELSE "run"

\* should_not_run(): "skip" where it returns True, "run" where it returns
\* False, "raise" where format or eval raises.
should_not_run(cfg, scope) ==
    IF "enabled" \in DOMAIN cfg /\ ~cfg.enabled THEN "skip"
    ELSE IF "condition" \in DOMAIN cfg
    THEN LET condition == format(cfg.condition, scope)
         IN  IF ~condition.ok THEN "raise"
             ELSE LET value == eval(condition.val)
                  IN  IF ~value.ok THEN "raise"
                      ELSE IF value.val THEN "run" ELSE "skip"
    ELSE "run"

\* run_worker: "if self.should_not_run(): return".
Gate(i) ==
    /\ inst[i].pc = "pending"
    /\ \E gate \in {should_not_run(Cfg(i), SelfVar(i))} :
           inst' = [inst EXCEPT ![i].pc = CASE gate = "skip" -> "skipped"
                                            [] gate = "run" -> "unpack"
                                            [] OTHER -> "failed",
                                ![i].err = IF gate = "raise" THEN "condition" ELSE @]
    /\ UNCHANGED <<scenario, config, var, thread_pool, main_pc, wait_idx, wait_thread, log, fs>>

\* The name of the k-th NamedTemporaryFile of instance i.
TmpName(i, k) == <<"/">> \o IntToStr(i) \o <<"_">> \o IntToStr(k)

\* Whether writing the content of a file definition succeeds: b64decode
\* raises on incorrect padding, urlopen raises when the fetch fails.
WriteOk(file_dict, fetch_ok) ==
    CASE file_dict.type = "base64" -> Len(file_dict.content) % 4 = 0
      [] file_dict.type = "wget" -> fetch_ok
      [] OTHER -> TRUE

RECURSIVE UnpackFrom(_, _, _, _, _, _)
\* unpack_files from the k-th file definition on: each name is bound to its
\* temporary file before the content is written.
UnpackFrom(files, k, i, scope, tmp_files, fetch_ok) ==
    IF k > Len(files) THEN [ok |-> TRUE, var |-> scope, tmp_files |-> tmp_files]
    ELSE LET bound == (files[k].name :> [str |-> TmpName(i, k)]) @@ scope
             kept == Append(tmp_files, k)
         IN  IF WriteOk(files[k], fetch_ok)
             THEN UnpackFrom(files, k + 1, i, bound, kept, fetch_ok)
             ELSE [ok |-> FALSE, var |-> bound, tmp_files |-> kept]

\* unpack_files that creates and writes the files but binds no name.
unpack_files_unbound(cfg, i, scope, fetch_ok) ==
    IF "files" \notin DOMAIN cfg
    THEN [ok |-> TRUE, var |-> scope, tmp_files |-> <<>>]
    ELSE [ok |-> UnpackFrom(cfg.files, 1, i, scope, <<>>, fetch_ok).ok,
          var |-> scope,
          tmp_files |-> UnpackFrom(cfg.files, 1, i, scope, <<>>, fetch_ok).tmp_files]

\* unpack_files()
unpack_files(cfg, i, scope, fetch_ok) ==
    IF "files" \notin DOMAIN cfg
    THEN [ok |-> TRUE, var |-> scope, tmp_files |-> <<>>]
    ELSE UnpackFrom(cfg.files, 1, i, scope, <<>>, fetch_ok)

\* run_worker: self.unpack_files().
UnpackFiles(i) ==
    /\ inst[i].pc = "unpack"
    /\ \E fetch_ok \in IF /\ "files" \in DOMAIN Cfg(i)
                          /\ \E k \in DOMAIN Cfg(i).files : Cfg(i).files[k].type = "wget"
                       THEN BOOLEAN ELSE {TRUE} :
          LET done == unpack_files(Cfg(i), i, SelfVar(i), fetch_ok)
          IN  /\ var' = [var EXCEPT ![inst[i].var] = done.var]
              /\ inst' = [inst EXCEPT ![i].tmp_files = done.tmp_files,
                                      ![i].pc = IF done.ok THEN "prepare" ELSE "failed",
                                      ![i].err = IF done.ok THEN @ ELSE "files"]
    /\ config' = AfterWrite(config, inst[i].cfg, var'[inst[i].var])
    /\ UNCHANGED <<scenario, thread_pool, main_pc, wait_idx, wait_thread, log, fs>>

\* CompilePatterns that lets a source that does not resolve or compile
\* through: the error would surface when the pattern is first used.
CompilePatternsUnchecked(cfg, scope) ==
    IF "patterns" \notin DOMAIN cfg THEN [ok |-> TRUE, val |-> <<>>]
    ELSE [ok |-> TRUE,
          val |-> [k \in DOMAIN cfg.patterns |->
                     [pattern |-> re_compile(format(cfg.patterns[k].pattern, scope).val),
                      groups |-> cfg.patterns[k].groups,
                      log |-> IF "log" \in DOMAIN cfg.patterns[k]
                              THEN cfg.patterns[k].log ELSE <<>>]]]

\* The list "patterns" run_worker builds: each pattern source is resolved and
\* compiled once, before the command is started; log is <<>> for None.
CompilePatterns(cfg, scope) ==
    IF "patterns" \notin DOMAIN cfg THEN [ok |-> TRUE, val |-> <<>>]
    ELSE LET src == [k \in DOMAIN cfg.patterns |-> format(cfg.patterns[k].pattern, scope)]
             good == \A k \in DOMAIN src : src[k].ok /\ re_compile(src[k].val).ok
         IN  [ok |-> good,
              val |-> IF good
                      THEN [k \in DOMAIN src |->
                              [pattern |-> re_compile(src[k].val),
                               groups |-> cfg.patterns[k].groups,
                               log |-> IF "log" \in DOMAIN cfg.patterns[k]
                                       THEN cfg.patterns[k].log ELSE <<>>]]
                      ELSE <<>>]

\* The log file path of run_worker, <<>> for None.
LogfilePath(cfg, scope, save_logfiles) ==
    IF save_logfiles /\ "logfile" \in DOMAIN cfg
    THEN LET path == format(cfg.logfile, scope)
         IN  [ok |-> path.ok, val |-> IF path.ok THEN <<"/">> \o path.val ELSE <<>>]
    ELSE [ok |-> TRUE, val |-> <<>>]

\* run_worker, from the command template to the log file path.
Prepare(i) ==
    /\ inst[i].pc = "prepare"
    /\ LET cmd == format(Cfg(i).cmd, SelfVar(i))
           patterns == CompilePatterns(Cfg(i), SelfVar(i))
           logfile == LogfilePath(Cfg(i), SelfVar(i), Scenarios[scenario].save_logfiles)
       IN  IF ~cmd.ok
           THEN inst' = [inst EXCEPT ![i].pc = "failed", ![i].err = "cmd"]
           ELSE IF ~patterns.ok
           THEN inst' = [inst EXCEPT ![i].pc = "failed", ![i].err = "pattern"]
           ELSE IF ~logfile.ok
           THEN inst' = [inst EXCEPT ![i].pc = "failed", ![i].err = "logfile"]
           ELSE inst' = [inst EXCEPT ![i].pc = "spawn", ![i].cmd = cmd.val,
                                     ![i].patterns = patterns.val,
                                     ![i].logfile = logfile.val]
    /\ UNCHANGED <<scenario, config, var, thread_pool, main_pc, wait_idx, wait_thread, log, fs>>

\* The text of a file after text is written at its start: what the file
\* held beyond the end of text stays.
WriteAtStart(old, text) == text \o SubSeq(old, Len(text) + 1, Len(old))

\* logfile_fp.close() of the file object of instance record rec: the text
\* written to the object reaches the file, from the file's start on.
Close(files, rec) ==
    IF rec.logfile_fp = "open"
    THEN Store(files, rec.logfile, WriteAtStart(files[rec.logfile], rec.buf))
    ELSE files

\* The files once the generator of exec_cmd is dropped before the stream is
\* exhausted: logfile_fp.close() is never called, and whether the text
\* written so far reaches the file is up to the finalizer of the object.
Abandon(files, rec) == {files, Close(files, rec)}

\* The outcomes of open(logfile, "w") the model allows: none without a log
\* file path, else success or OSError.
OpenOutcomes(rec) == IF rec.logfile = <<>> THEN {"none"} ELSE {"open", "OSError"}

\* exec_cmd up to the loop, reached when run_worker asks for the first
\* line: Popen(cmd.split(), ...), then open(logfile, "w"), which truncates
\* the file; an OSError is logged as a warning and logfile_fp stays None.
Spawn(i) ==
    /\ inst[i].pc = "spawn"
    /\ LET argv == split(inst[i].cmd)
       IN  IF argv = <<>> \/ argv[1] \notin Programs
           THEN /\ inst' = [inst EXCEPT ![i].pc = "failed", ![i].err = "spawn"]
                /\ UNCHANGED fs
           ELSE \E out \in Exec(argv) :
                \E opened \in OpenOutcomes(inst[i]) :
                    /\ inst' = [inst EXCEPT ![i].pc = "read", ![i].lines = out,
                                            ![i].spawned = TRUE,
                                            ![i].logfile_fp =
                                                IF opened = "open" THEN "open" ELSE "none",
                                            ![i].warned = (opened = "OSError")]
                    /\ fs' = IF opened = "open"
                             THEN Store(fs, inst[i].logfile, <<>>)
                             ELSE fs
    /\ UNCHANGED <<scenario, config, var, thread_pool, main_pc, wait_idx, wait_thread, log>>

(***************************************************************************)
(* run_worker: the output loop, and run_submodules.                        *)
(***************************************************************************)
\* AfterLoopError with the error swallowed inside the loop: run_worker goes
\* on to the next line and, at the end of the stream, to
\* run_submodules("always").
AfterLoopErrorGuarded == "read"

\* Where run_worker stands after the exception of a fatal error mid-stream
\* has left the output loop: the exception leaves run_worker too.
AfterLoopError == "failed"

\* The instance record once the pattern at pidx has been handled: the next
\* pattern of the same line, or the next line.
NextPattern(rec) ==
    IF rec.pidx < Len(rec.patterns)
    THEN [rec EXCEPT !.pidx = rec.pidx + 1, !.pc = "match"]
    ELSE [rec EXCEPT !.pidx = 0, !.pc = "read"]

\* AfterSubmodules with a break out of the pattern loop after a match: the
\* patterns after the first one that matches a line are not tried on it.
AfterSubmodulesBreak(rec, modgroup) ==
    IF modgroup = "always"
    THEN [rec EXCEPT !.pc = "done", !.modgroup = "none", !.sub = 0]
    ELSE [rec EXCEPT !.modgroup = "none", !.sub = 0, !.pidx = 0, !.pc = "read"]

\* The instance record once run_submodules(modgroup) has returned.
AfterSubmodules(rec, modgroup) ==
    IF modgroup = "always"
    THEN [rec EXCEPT !.pc = "done", !.modgroup = "none", !.sub = 0]
    ELSE NextPattern([rec EXCEPT !.modgroup = "none", !.sub = 0])

\* The instance record on the call run_submodules(modgroup).
EnterSubmodules(rec, cfg, modgroup) ==
    LET called == [rec EXCEPT !.calls = Append(@, [modgroup |-> modgroup,
                                                   line |-> rec.cursor,
                                                   pattern |-> rec.pidx])]
    IN  IF Submods(cfg, modgroup) = <<>>
        THEN AfterSubmodules(called, modgroup)
        ELSE [called EXCEPT !.pc = "start", !.modgroup = modgroup, !.sub = 1]

\* HasNextLine that stops one line early.
HasNextLineButLast(rec) == rec.cursor < Len(rec.lines) - 1

\* "for line in proc.stdout": whether the stream has a line left to yield.
HasNextLine(rec) == rec.cursor < Len(rec.lines)

\* Yield that writes nothing to logfile_fp.
YieldWithoutWrite(rec) == [rec EXCEPT !.cursor = @ + 1]

\* The instance record once exec_cmd has written the next line to
\* logfile_fp (where there is one) and yielded it.
Yield(rec) ==
    [rec EXCEPT !.cursor = @ + 1,
                !.buf = IF rec.logfile_fp = "open"
                        THEN @ \o rec.lines[rec.cursor + 1] ELSE @]

\* "for line in self.exec_cmd(...)": the next line of the output, or, once
\* the stream is exhausted, logfile_fp.close() and run_submodules("always").
ReadLine(i) ==
    /\ inst[i].pc = "read"
    /\ IF HasNextLine(inst[i])
       THEN /\ inst' = [inst EXCEPT ![i] =
                          IF inst[i].patterns = <<>>
                          THEN Yield(@)
                          ELSE [Yield(@) EXCEPT !.pidx = 1, !.pc = "match"]]
            /\ UNCHANGED fs
       ELSE /\ inst' = [inst EXCEPT ![i] =
                          EnterSubmodules([@ EXCEPT !.logfile_fp =
                                                IF @ = "open" THEN "closed" ELSE @],
                                          Cfg(i), "always")]
            /\ fs' = Close(fs, inst[i])
    /\ UNCHANGED <<scenario, config, var, thread_pool, main_pc, wait_idx, wait_thread, log>>

\* info with the record put in front of the records already emitted.
info_in_front(records, record) == <<record>> \o records

\* self.logger.info(...): the handler receives the record after every record
\* emitted before it.  by, line and pattern keep the instance and the match
\* the record was emitted for.
info(records, record) == Append(records, record)

RECURSIVE BindGroups(_, _, _, _)
\* "for group in pattern_dict['groups']": self.var[group.format(**self.var)]
\* = match.group(idx), from the idx-th name on.  KeyError where the name does
\* not resolve, IndexError where the pattern has no idx-th group; what was
\* bound before stays bound.
BindGroups(groups, idx, captured, scope) ==
    IF idx > Len(groups) THEN [ok |-> TRUE, var |-> scope]
    ELSE LET name == format(groups[idx], scope)
         IN  IF ~name.ok \/ idx > Len(captured) THEN [ok |-> FALSE, var |-> scope]
             ELSE BindGroups(groups, idx + 1, captured,
                             (name.val :> [str |-> captured[idx]]) @@ scope)

\* The body of "for pattern_dict in patterns" for the current line.
MatchLine(i) ==
    /\ inst[i].pc = "match"
    /\ LET pattern_dict == inst[i].patterns[inst[i].pidx]
           match == re_match(pattern_dict.pattern, inst[i].lines[inst[i].cursor])
           bound == BindGroups(pattern_dict.groups, 1, match.groups, SelfVar(i))
           msg == format(pattern_dict.log, bound.var)
       IN  IF ~match.matched
           THEN /\ inst' = [inst EXCEPT ![i] = NextPattern(@)]
                /\ UNCHANGED <<var, log, fs>>
           ELSE /\ var' = [var EXCEPT ![inst[i].var] = bound.var]
                /\ IF ~bound.ok
                   THEN /\ inst' = [inst EXCEPT ![i].pc = AfterLoopError,
                                                ![i].err = "groups"]
                        /\ fs' \in Abandon(fs, inst[i])
                        /\ UNCHANGED log
                   ELSE IF pattern_dict.log # <<>> /\ ~msg.ok
                   THEN /\ inst' = [inst EXCEPT ![i].pc = AfterLoopError,
                                                ![i].err = "log"]
                        /\ fs' \in Abandon(fs, inst[i])
                        /\ UNCHANGED log
                   ELSE /\ log' = IF pattern_dict.log # <<>>
                                  THEN info(log, [name |-> inst[i].name,
                                                  msg |-> msg.val,
                                                  by |-> i,
                                                  line |-> inst[i].cursor,
                                                  pattern |-> inst[i].pidx])
                                  ELSE log
                        /\ inst' = [inst EXCEPT ![i] =
                                        EnterSubmodules(@, Cfg(i), "on_match")]
                        /\ UNCHANGED fs
    /\ config' = AfterWrite(config, inst[i].cfg, var'[inst[i].var])
    /\ UNCHANGED <<scenario, thread_pool, main_pc, wait_idx, wait_thread>>

\* run_submodules: sub_task = Module(self.thread_pool, post_task, self.var,
\* self.log_handler), and the first half of sub_task.run(): thread.start().
\* The constructor runs in this thread: where the name of post_task does not
\* resolve, its KeyError ends run_submodules and run_worker.
StartSubmodule(i) ==
    /\ inst[i].pc = "start"
    /\ LET modgroup == inst[i].modgroup
           k == inst[i].sub
           post_task == Submods(Cfg(i), modgroup)[k]
           new == Len(inst) + 1
           ref == VarRef(new, inst[i].var)
           scope == InitialVar(post_task, SelfVar(i))
           name == format(post_task.name, scope)
       IN  IF name.ok
           THEN /\ var' = Store(var, ref, scope)
                /\ thread_pool' = Store(thread_pool, PoolRef(new, inst[i].thread_pool),
                                        thread_pool[PoolRef(new, inst[i].thread_pool)])
                /\ inst' = Append([inst EXCEPT ![i].pc = "append", ![i].child = new],
                                  NewInstance(Append(inst[i].cfg,
                                                     [modgroup |-> modgroup, k |-> k]),
                                              i, modgroup, inst[i].cursor, inst[i].pidx,
                                              ref, PoolRef(new, inst[i].thread_pool),
                                              name.val, scope))
                /\ UNCHANGED fs
           ELSE /\ var' = IF ref \in DOMAIN var THEN Store(var, ref, scope) ELSE var
                /\ inst' = [inst EXCEPT ![i].pc = "failed", ![i].err = "submodule"]
                /\ fs' \in Abandon(fs, inst[i])
                /\ UNCHANGED thread_pool
    /\ config' = AfterWrite(config,
                           Append(inst[i].cfg, [modgroup |-> inst[i].modgroup,
                                                k |-> inst[i].sub]),
                           InitialVar(Submods(Cfg(i), inst[i].modgroup)[inst[i].sub],
                                      SelfVar(i)))
    /\ UNCHANGED <<scenario, main_pc, wait_idx, wait_thread, log>>

\* run_submodules: the second half of sub_task.run(),
\* self.thread_pool.append(thread), and the step to the next post_task.
AppendSubmodule(i) ==
    /\ inst[i].pc = "append"
    /\ LET child == inst[i].child
           parent == [inst[i] EXCEPT !.child = 0]
       IN  /\ thread_pool' = [thread_pool EXCEPT ![inst[child].thread_pool] =
                                 append(@, child)]
           /\ inst' = [inst EXCEPT
                         ![child].registered = TRUE,
                         ![child].late = (main_pc = "wait"),
                         ![i] = IF parent.sub < Len(Submods(Cfg(i), parent.modgroup))
                                THEN [parent EXCEPT !.sub = @ + 1, !.pc = "start"]
                                ELSE AfterSubmodules(parent, parent.modgroup)]
    /\ UNCHANGED <<scenario, config, var, main_pc, wait_idx, wait_thread, log, fs>>

(***************************************************************************)
(* The release of an instance.                                             *)
(***************************************************************************)
\* The instance the variable sub_task of instance p's run_submodules names:
\* the one constructed last in the call that is running, 0 if none.
SubTask(p) ==
    IF inst[p].pc = "append" THEN inst[p].child
    ELSE IF inst[p].pc = "start" /\ inst[p].sub > 1
         THEN CHOOSE c \in Instances :
                  /\ inst[c].parent = p
                  /\ \A d \in Instances : inst[d].parent = p => d <= c
         ELSE 0

\* Something still names instance i: the caller its root, a thread that
\* has not ended the target it was constructed with, run_submodules the
\* sub_task it constructed last.
Referenced(i) ==
    \/ inst[i].parent = 0
    \/ ~Terminated(i)
    \/ SubTask(inst[i].parent) = i

\* An instance nothing names any more is released, at once or later, and
\* its tmp_files with it: a NamedTemporaryFile deletes its file when it is
\* closed, and it is closed when it is released.
Release(i) ==
    /\ ~Referenced(i)
    /\ inst[i].tmp_files # <<>> /\ ~inst[i].deleted
    /\ inst' = [inst EXCEPT ![i].deleted = TRUE]
    /\ UNCHANGED <<scenario, config, var, thread_pool, main_pc, wait_idx, wait_thread,
                   log, fs>>

(***************************************************************************)
(* Specification.                                                          *)
(***************************************************************************)
Init ==
    /\ scenario \in DOMAIN Scenarios
    /\ config = Scenarios[scenario].cfg
    /\ inst = <<>>
    /\ var = <<>>
    /\ thread_pool = (0 :> <<>>)
    /\ main_pc = "init"
    /\ wait_idx = 0
    /\ wait_thread = 0
    /\ log = <<>>
    /\ fs = <<>>

Next ==
    \/ RootRun
    \/ RootAppend
    \/ WaitNext
    \/ WaitJoin
    \/ WaitReturn
    \/ \E i \in Instances : Gate(i)
    \/ \E i \in Instances : UnpackFiles(i)
    \/ \E i \in Instances : Prepare(i)
    \/ \E i \in Instances : Spawn(i)
    \/ \E i \in Instances : ReadLine(i)
    \/ \E i \in Instances : MatchLine(i)
    \/ \E i \in Instances : StartSubmodule(i)
    \/ \E i \in Instances : AppendSubmodule(i)
    \/ \E i \in Instances : Release(i)

Spec == Init /\ [][Next]_vars

\* Spec with the scheduler's guarantee that a thread that can take a step
\* is not held back forever: some enabled step of the program is
\* eventually taken.
LiveSpec == Spec /\ WF_vars(Next)

(***************************************************************************)
(* Properties.                                                             *)
(***************************************************************************)
\* The instances instance p has started.
Children(p) == {c \in Instances : inst[c].parent = p}

\* The calls run_submodules(modgroup) instance i has made.
Calls(i, modgroup) == SelectSeq(inst[i].calls, LAMBDA c : c.modgroup = modgroup)

\* The definition of instance i has enabled = false.
Disabled(i) == "enabled" \in DOMAIN Cfg(i) /\ ~Cfg(i).enabled

\* C1: wait_until_complete, called on the root after run(), returns only
\* when every instance started anywhere in the tree has ended, whoever
\* started it and whenever it was appended to the pool.
C1_WaitCoversTree ==
    main_pc = "returned" => \A i \in Instances : Terminated(i) /\ inst[i].registered

\* C1 witness: the wait has returned in a run where an instance started by
\* a node other than the root was appended to the pool after the wait began.
C1_Witness ==
    /\ main_pc = "returned"
    /\ \E i \in Instances : inst[i].late /\ inst[i].parent > 1 /\ inst[i].pc = "done"

\* C2: an instance whose definition has enabled = false never gets past its
\* gate: its command is never started, it never calls run_submodules and it
\* starts no instance.
C2_DisabledRunsNothing ==
    \A i \in Instances :
        Disabled(i) =>
            /\ inst[i].pc \in {"pending", "skipped"}
            /\ ~inst[i].spawned
            /\ inst[i].calls = <<>>
            /\ Children(i) = {}

\* C2 witness: a disabled instance with a condition, files, patterns and
\* submodules of its own has been skipped.
C2_Witness ==
    \E i \in Instances :
        /\ Disabled(i)
        /\ inst[i].pc = "skipped"
        /\ {"condition", "files", "patterns", "submodules"} \subseteq DOMAIN Cfg(i)


\* What the condition of instance i comes to in the scope the instance was
\* constructed with: "absent", "true", "false", or "error" where the
\* template does not resolve or the expression does not evaluate.
Condition(i) ==
    IF "condition" \notin DOMAIN Cfg(i) THEN "absent"
    ELSE LET text == format(Cfg(i).condition, inst[i].var0)
         IN  IF ~text.ok \/ ~eval(text.val).ok THEN "error"
             ELSE IF eval(text.val).val THEN "true" ELSE "false"

\* The error sites before the command of a node is started.
PreSpawnErrors == {"files", "cmd", "pattern", "logfile", "spawn"}

\* C3 as claimed: of the instances that are not disabled, one whose
\* condition is false never starts its command nor any instance, and one
\* whose condition is absent or true is not skipped and has started its
\* command by the time its thread ends.
C3_GateDecidesAsClaimed ==
    \A i \in Instances :
        ~Disabled(i) =>
            /\ Condition(i) = "false" =>
                    /\ inst[i].pc \in {"pending", "skipped"}
                    /\ ~inst[i].spawned
                    /\ inst[i].calls = <<>> /\ Children(i) = {}
            /\ Condition(i) \in {"absent", "true"} =>
                    /\ inst[i].pc # "skipped"
                    /\ Terminated(i) => inst[i].spawned

\* C3 as amended: as claimed, except that an instance that passes its gate
\* may end without its command started when a fatal error of its own
\* (provisioning, an unresolved command, pattern or log file template, a
\* pattern that does not compile, Popen) precedes the start.
C3_GateDecides ==
    \A i \in Instances :
        ~Disabled(i) =>
            /\ Condition(i) = "false" =>
                    /\ inst[i].pc \in {"pending", "skipped"}
                    /\ ~inst[i].spawned
                    /\ inst[i].calls = <<>> /\ Children(i) = {}
            /\ Condition(i) \in {"absent", "true"} =>
                    /\ inst[i].pc # "skipped"
                    /\ inst[i].pc = "pending" \/ inst[i].tmp_files # <<>>
                            \/ "files" \notin DOMAIN Cfg(i) \/ inst[i].pc = "unpack"
                    /\ Terminated(i) =>
                            \/ inst[i].spawned
                            \/ inst[i].pc = "failed" /\ inst[i].err \in PreSpawnErrors

\* C3 witness: in one run an instance with a false condition was skipped
\* and an instance with a true condition has started its command.
C3_Witness ==
    \E i, j \in Instances :
        /\ ~Disabled(i) /\ Condition(i) = "false" /\ inst[i].pc = "skipped"
        /\ ~Disabled(j) /\ Condition(j) = "true" /\ inst[j].spawned

\* The loop of run_worker over the output of instance i has ended because
\* the stream was exhausted, not because an exception left it.
StreamExhausted(i) ==
    /\ inst[i].spawned
    /\ inst[i].cursor = Len(inst[i].lines)
    /\ inst[i].pc \notin {"read", "match"}
    /\ inst[i].modgroup # "on_match"
    /\ ~(inst[i].pc = "failed" /\ inst[i].err \in {"groups", "log"})

\* The instances p has started for the k-th definition of modgroup on the
\* call made at (line, pattern).
Started(p, modgroup, line, pattern, k) ==
    {c \in Children(p) : /\ inst[c].via = modgroup
                         /\ inst[c].line = line /\ inst[c].pattern = pattern
                         /\ inst[c].cfg[Len(inst[c].cfg)].k = k}

\* C4 as claimed: once the output stream of an instance that passed its gate
\* is exhausted and its thread has ended, run_submodules("always") has been
\* called exactly once and every always definition has been instantiated
\* and started exactly once, whatever the number of lines and matches.
C4_AlwaysExactlyOnce ==
    \A i \in Instances :
        (Terminated(i) /\ StreamExhausted(i)) =>
            /\ Len(Calls(i, "always")) = 1
            /\ \A k \in DOMAIN Submods(Cfg(i), "always") :
                    Cardinality({c \in Children(i) :
                                    /\ inst[c].via = "always"
                                    /\ inst[c].cfg[Len(inst[c].cfg)].k = k}) = 1


\* The (line, pattern) pair has been handled by instance i: the pattern was
\* tried on the line and, where it matched, run_submodules("on_match") was
\* called.
Handled(i, line, pattern) ==
    \/ line < inst[i].cursor
    \/ /\ line = inst[i].cursor
       /\ \/ inst[i].pidx = 0
          \/ pattern < inst[i].pidx
          \/ pattern = inst[i].pidx /\ inst[i].pc \in {"start", "append"}

\* The handled (line, pattern) pairs of instance i whose pattern matches the
\* line, in the order of the output and, within a line, of the patterns.
MatchOccurrences(i) ==
    LET n == Len(inst[i].patterns)
        pairs == [q \in 1..(inst[i].cursor * n) |->
                    [modgroup |-> "on_match",
                     line |-> ((q - 1) \div n) + 1,
                     pattern |-> ((q - 1) % n) + 1]]
    IN  SelectSeq(pairs, LAMBDA c :
            /\ Handled(i, c.line, c.pattern)
            /\ re_match(inst[i].patterns[c.pattern].pattern,
                        inst[i].lines[c.line]).matched)

Acts(j) ==
    \/ inst'[j].pc # inst[j].pc
    \/ inst'[j].pidx # inst[j].pidx
    \/ inst'[j].cursor # inst[j].cursor

\* C6: no two instances share a scope dictionary; the scope of an instance
\* changes only in a step of that instance itself, so a capture or a file
\* binding of one instance never changes the scope of its parent, of a
\* sibling or of an instance of another branch; and an instance that is
\* started inherits every name its parent's scope binds at that moment.
C6_ScopeIsolation ==
    /\ [](\A i, j \in Instances : i # j => inst[i].var # inst[j].var)
    /\ [][/\ \A j \in Instances : SelfVar(j)' # SelfVar(j) => Acts(j)
          /\ (Len(inst) >= 1 /\ Len(inst') = Len(inst) + 1) =>
                DOMAIN SelfVar(inst'[Len(inst')].parent)
                    \subseteq DOMAIN var'[inst'[Len(inst')].var]]_vars

\* The scope binds name n to value v.
Binds(scope, n, v) == n \in DOMAIN scope /\ scope[n] = v

\* C6 witness: an instance has made, after its construction, a binding that
\* neither its parent nor a sibling has, and has started an instance that
\* inherited the binding.
C6_Witness ==
    \E i, j, c \in Instances :
        /\ i # j /\ inst[i].parent = inst[j].parent /\ inst[i].parent # 0
        /\ inst[c].parent = i
        /\ \E n \in DOMAIN SelfVar(i) :
                /\ ~Binds(inst[i].var0, n, SelfVar(i)[n])
                /\ ~Binds(SelfVar(j), n, SelfVar(i)[n])
                /\ ~Binds(SelfVar(inst[i].parent), n, SelfVar(i)[n])
                /\ Binds(SelfVar(c), n, SelfVar(i)[n])


\* The scope a constructor is to leave: the inherited bindings, with the
\* node's own declarations taking precedence.
Overlay(cfg, inherited) ==
    LET own == IF "vars" \in DOMAIN cfg THEN cfg.vars ELSE <<>>
    IN  [n \in DOMAIN own \cup DOMAIN inherited |->
            IF n \in DOMAIN own THEN own[n] ELSE inherited[n]]

\* The names the groups of pattern k of instance p bind (those given
\* without placeholders), each with the group that binds it last.
LastGroupOf(p, k) ==
    LET groups == inst[p].patterns[k].groups
    IN  {g \in DOMAIN groups :
            /\ format(groups[g], <<>>).ok
            /\ \A h \in DOMAIN groups : h > g => groups[h] # groups[g]}

\* C7: an instance starts with a copy of the scope of the instance that
\* starts it, taken in that step and overlaid with its own declared vars,
\* which take precedence; on an on-match call the copy holds the captures of
\* the match that made the call; a later binding of the parent changes the
\* scope of none of the instances it has started, and until an instance
\* itself acts its scope is the copy; an always child starts with the scope
\* its parent is left with after the whole stream.
C7_SnapshotAtTrigger ==
    /\ [](\A c \in Instances :
            /\ inst[c].pc = "pending" => SelfVar(c) = inst[c].var0
            /\ inst[c].via = "always" =>
                    inst[c].var0 = Overlay(Cfg(c), SelfVar(inst[c].parent)))
    /\ [][/\ (Len(inst) >= 1 /\ Len(inst') = Len(inst) + 1) =>
                LET c == Len(inst')
                    p == inst'[c].parent
                    cfg == DefAt(Scenarios[scenario].cfg, inst'[c].cfg)
                IN  /\ var'[inst'[c].var] = Overlay(cfg, SelfVar(p))
                    /\ inst'[c].via = "on_match" =>
                          \A g \in LastGroupOf(p, inst[p].pidx) :
                             Binds(var'[inst'[c].var],
                                   inst[p].patterns[inst[p].pidx].groups[g],
                                   IF inst[p].patterns[inst[p].pidx].groups[g]
                                         \in DOMAIN Overlay(cfg, <<>>)
                                   THEN Overlay(cfg, <<>>)
                                          [inst[p].patterns[inst[p].pidx].groups[g]]
                                   ELSE [str |-> re_match(
                                            inst[p].patterns[inst[p].pidx].pattern,
                                            inst[p].lines[inst[p].cursor]).groups[g]])
          /\ \A p \in Instances :
                SelfVar(p)' # SelfVar(p) =>
                    \A c \in Children(p) : SelfVar(c)' = SelfVar(c)]_vars

\* C7 witness: an instance started on a match declares a name its parent's
\* scope binds too and holds its own value for it, and next to it holds a
\* binding its parent made after its own construction.
C7_Witness ==
    \E c \in Instances :
        /\ inst[c].via = "on_match"
        /\ \E n \in DOMAIN Overlay(Cfg(c), <<>>) :
                /\ n \in DOMAIN SelfVar(inst[c].parent)
                /\ SelfVar(c)[n] = Overlay(Cfg(c), <<>>)[n]
                /\ SelfVar(c)[n] # SelfVar(inst[c].parent)[n]
        /\ \E n \in DOMAIN SelfVar(inst[c].parent) :
                /\ ~Binds(inst[inst[c].parent].var0, n, SelfVar(inst[c].parent)[n])
                /\ Binds(SelfVar(c), n, SelfVar(inst[c].parent)[n])

\* C8: the calls of an instance are made in the order of the output lines
\* (and, within a line, of the patterns); run_submodules("always") is the
\* last call and is made with the whole output consumed; and an always
\* child exists only once its parent has left the output loop, after every
\* on-match child of that parent.
C8_OrderWithinNode ==
    \A i \in Instances :
        LET cs == inst[i].calls
        IN  /\ \A a, b \in DOMAIN cs :
                  a < b =>
                     /\ cs[a].modgroup = "on_match"
                     /\ \/ cs[b].modgroup = "always"
                        \/ cs[a].line < cs[b].line
                        \/ cs[a].line = cs[b].line /\ cs[a].pattern < cs[b].pattern
            /\ \A a \in DOMAIN cs :
                  cs[a].modgroup = "always" => cs[a].line = Len(inst[i].lines)
            /\ \A c \in Children(i) :
                  inst[c].via = "always" =>
                     /\ inst[i].cursor = Len(inst[i].lines)
                     /\ inst[i].pc \notin {"read", "match"}
                     /\ inst[i].modgroup # "on_match"
                     /\ \A m \in Children(i) : inst[m].via = "on_match" => m < c

\* C8 witness: an instance has ended after on-match calls on two lines and
\* the always call, with on-match and always children started.
C8_Witness ==
    \E i \in Instances :
        /\ inst[i].pc = "done"
        /\ \E a, b \in DOMAIN Calls(i, "on_match") :
                Calls(i, "on_match")[a].line < Calls(i, "on_match")[b].line
        /\ \E c, m \in Children(i) : inst[c].via = "always" /\ inst[m].via = "on_match"


\* The error sites of a node's own templates, condition, files and command.
OwnErrors == PreSpawnErrors \cup {"condition", "groups", "log"}

\* C9 as claimed: the thread of an instance is ended only by a fatal error
\* of that instance's own; an error of an instance it is starting (the name
\* template of a submodule that does not resolve) does not end it, so it
\* goes on to start the remaining submodules of the group, to handle its
\* remaining output and to make its always call.
C9_ErrorsStayInNode ==
    \A i \in Instances :
        /\ inst[i].pc = "failed" => inst[i].err \in OwnErrors
        /\ (Terminated(i) /\ inst[i].spawned /\ inst[i].err \notin OwnErrors) =>
                /\ Len(Calls(i, "always")) = 1
                /\ inst[i].cursor = Len(inst[i].lines)

\* The loop over the output of instance i was left by an exception.
FailedMidStream(i) ==
    \/ inst[i].err \in {"groups", "log"}
    \/ inst[i].err = "submodule" /\ inst[i].modgroup = "on_match"

\* C10 as claimed: every instance whose command was started has made its
\* always call by the time its thread ends, however the output loop ended.
C10_AlwaysAfterAnyLoopEnd ==
    \A i \in Instances :
        (Terminated(i) /\ inst[i].spawned) => Len(Calls(i, "always")) = 1

\* C10 as amended: an instance makes its always call when the output loop
\* ends because the stream is exhausted; an instance whose loop is left by
\* a fatal error (an unresolved capture name or log message, a group the
\* pattern does not have, a submodule that cannot be constructed) ends
\* there: it makes no always call and starts no always child.
C10_AlwaysOnlyAfterExhaustion ==
    \A i \in Instances :
        /\ FailedMidStream(i) =>
                /\ inst[i].pc = "failed"
                /\ Calls(i, "always") = <<>>
                /\ \A c \in Children(i) : inst[c].via # "always"
        /\ (Terminated(i) /\ inst[i].spawned /\ ~FailedMidStream(i)) =>
                /\ Len(Calls(i, "always")) = 1
                /\ inst[i].cursor = Len(inst[i].lines)

\* C10 witness: the thread of an instance that has always submodules has
\* ended by an error raised while it handled a matched line of its output.
C10_Witness ==
    \E i \in Instances :
        /\ inst[i].pc = "failed" /\ inst[i].err \in {"groups", "log"}
        /\ inst[i].spawned /\ inst[i].cursor >= 1
        /\ Submods(Cfg(i), "always") # <<>>


RECURSIVE BranchOf(_, _)
\* The instance started by p that d descends from (d itself where p started
\* d), 0 where d does not descend from p.
BranchOf(d, p) ==
    IF d = 0 \/ inst[d].parent = 0 THEN 0
    ELSE IF inst[d].parent = p THEN d
    ELSE BranchOf(inst[d].parent, p)

\* Instance c was started by its parent on the match (line, pattern) or
\* later: on the on-match call of that match or of a later one, or on the
\* always call.
StartedAtOrAfter(c, line, pattern) ==
    \/ inst[c].via = "always"
    \/ inst[c].line > line
    \/ inst[c].line = line /\ inst[c].pattern >= pattern

\* The messages of the info records received so far, in order.
Messages == [k \in DOMAIN log |-> log[k].msg]

\* C11: the info record an instance emits for a match precedes every info
\* record of an instance that descends from an instance it started on that
\* match or later; running the reference fixture, the records received are
\* at every moment a prefix of "fo", "fo4", and are exactly these two once
\* wait_until_complete has returned.
C11_LogOrder ==
    /\ \A a, b \in DOMAIN log :
            LET c == BranchOf(log[b].by, log[a].by)
            IN  (c # 0 /\ StartedAtOrAfter(c, log[a].line, log[a].pattern)) => a < b
    /\ scenario = 1 =>
            /\ Messages = SubSeq(<<<<"f", "o">>, <<"f", "o", "4">>>>, 1, Len(log))
            /\ main_pc = "returned" => Len(log) = 2

\* C11 witness: the fixture has run to the end of the wait with both
\* records received, the second from the always child of the root.
C11_Witness ==
    /\ scenario = 1 /\ main_pc = "returned"
    /\ Len(log) = 2 /\ log[1].by = 1
    /\ inst[log[2].by].parent = 1 /\ inst[log[2].by].via = "always"


\* C12: under LiveSpec (every command prints a finite output and exits,
\* every tree is finite) every instance that was started ends skipped, done
\* or failed, and wait_until_complete returns (where the constructor of the
\* root raised, run() and the wait were never called); and run() never
\* waits: its append is enabled whatever the new thread has done.
C12_Terminates ==
    /\ [](main_pc = "run" => ENABLED RootAppend)
    /\ <>[](/\ main_pc \in {"returned", "raised"}
            /\ \A i \in Instances : Terminated(i))

\* C12 witness: run() has returned to its caller while the command of the
\* root has not been started yet, in a tree whose root has submodules.
C12_Witness ==
    /\ main_pc = "wait"
    /\ inst[1].pc = "pending" /\ ~inst[1].spawned
    /\ "submodules" \in DOMAIN Cfg(1)


\* C13 as claimed, for the pattern sources: the pattern an instance tests
\* against a line is its source resolved against the scope the instance has
\* at that moment, so that a capture made on an earlier line, or by an
\* earlier pattern on the same line, is visible to it.
C13_PatternResolvedAtUse ==
    \A i \in Instances :
        inst[i].pc = "match" =>
            LET source == format(Cfg(i).patterns[inst[i].pidx].pattern, SelfVar(i))
            IN  /\ source.ok
                /\ inst[i].patterns[inst[i].pidx].pattern = re_compile(source.val)


\* cfg["files"], empty when the key is absent.
Files(cfg) == IF "files" \in DOMAIN cfg THEN cfg.files ELSE <<>>

\* The file definitions of cfg that no later one of the same name follows.
LastFiles(cfg) ==
    {k \in DOMAIN Files(cfg) :
        \A j \in DOMAIN Files(cfg) : j > k => Files(cfg)[j].name # Files(cfg)[k].name}

\* Instance i has not reached unpack_files yet.
BeforeProvisioning(i) == inst[i].pc \in {"pending", "unpack", "skipped"}

\* Instance i has returned from unpack_files.
Provisioned(i) ==
    /\ ~BeforeProvisioning(i)
    /\ ~(inst[i].pc = "failed" /\ inst[i].err \in {"condition", "files"})

\* C14 as claimed: an instance takes its steps in the order gate,
\* provisioning, command resolution, spawn; before provisioning no declared
\* file name is bound in its scope; when the command template is about to
\* be resolved every declared file name is bound to the path of the
\* instance's file, after it every name stays bound, and every instance
\* started from then on inherits the name.
C14_FilesBoundAsClaimed ==
    \A i \in Instances :
        /\ BeforeProvisioning(i) =>
                /\ inst[i].tmp_files = <<>> /\ inst[i].cmd = <<>> /\ ~inst[i].spawned
                /\ \A k \in DOMAIN Files(Cfg(i)) :
                        Files(Cfg(i))[k].name \notin DOMAIN SelfVar(i)
        /\ inst[i].pc = "prepare" =>
                /\ inst[i].cmd = <<>> /\ ~inst[i].spawned
                /\ \A k \in LastFiles(Cfg(i)) :
                        Binds(SelfVar(i), Files(Cfg(i))[k].name, [str |-> TmpName(i, k)])
        /\ Provisioned(i) =>
                /\ Len(inst[i].tmp_files) = Len(Files(Cfg(i)))
                /\ \A k \in DOMAIN Files(Cfg(i)) :
                        /\ Files(Cfg(i))[k].name \in DOMAIN SelfVar(i)
                        /\ \A c \in Children(i) :
                                Files(Cfg(i))[k].name \in DOMAIN inst[c].var0

\* C14 as amended: as claimed, except that before provisioning a declared
\* file name may be bound already, by the scope the instance inherited or
\* by its own vars; it is never bound to the path of a file of the instance
\* itself.
C14_FilesBoundBeforeCommand ==
    \A i \in Instances :
        /\ BeforeProvisioning(i) =>
                /\ inst[i].tmp_files = <<>> /\ inst[i].cmd = <<>> /\ ~inst[i].spawned
                /\ \A k \in DOMAIN Files(Cfg(i)) :
                        /\ ~Binds(SelfVar(i), Files(Cfg(i))[k].name,
                                  [str |-> TmpName(i, k)])
                        /\ Files(Cfg(i))[k].name \in DOMAIN SelfVar(i) =>
                                Files(Cfg(i))[k].name \in DOMAIN inst[i].var0
        /\ inst[i].pc = "prepare" =>
                /\ inst[i].cmd = <<>> /\ ~inst[i].spawned
                /\ \A k \in LastFiles(Cfg(i)) :
                        Binds(SelfVar(i), Files(Cfg(i))[k].name, [str |-> TmpName(i, k)])
        /\ Provisioned(i) =>
                /\ Len(inst[i].tmp_files) = Len(Files(Cfg(i)))
                /\ \A k \in DOMAIN Files(Cfg(i)) :
                        /\ Files(Cfg(i))[k].name \in DOMAIN SelfVar(i)
                        /\ \A c \in Children(i) :
                                Files(Cfg(i))[k].name \in DOMAIN inst[c].var0

\* C14 witness: an instance has started a command whose text holds the
\* path of its own file, next to a sibling that inherited another path for
\* the same name from their parent and started its command with it.
C14_Witness ==
    \E i, j \in Instances :
        /\ i # j /\ inst[i].parent = inst[j].parent /\ inst[i].parent # 0
        /\ Files(Cfg(i)) # <<>> /\ Files(Cfg(j)) = <<>>
        /\ inst[i].spawned /\ inst[j].spawned
        /\ inst[i].cmd = echo \o <<" ">> \o TmpName(i, 1)
        /\ inst[j].cmd = echo \o <<" ">> \o TmpName(inst[j].parent, 1)


\* The scope instance i has when it returns from unpack_files: the scope of
\* its construction with its file names bound.
PrepareScope(i) == unpack_files(Cfg(i), i, inst[i].var0, TRUE).var

\* The command, a pattern source or the log file path of instance i does
\* not resolve in the scope it has after provisioning, or a pattern source
\* does not compile.
PrepareFault(i) ==
    \/ ~format(Cfg(i).cmd, PrepareScope(i)).ok
    \/ /\ "patterns" \in DOMAIN Cfg(i)
       /\ \E k \in DOMAIN Cfg(i).patterns :
            \/ ~format(Cfg(i).patterns[k].pattern, PrepareScope(i)).ok
            \/ ~re_compile(format(Cfg(i).patterns[k].pattern, PrepareScope(i)).val).ok
    \/ ~LogfilePath(Cfg(i), PrepareScope(i), Scenarios[scenario].save_logfiles).ok

\* Instance i has started no command, read no output, made no call of
\* run_submodules and started no instance.
Quiet(i) ==
    /\ ~inst[i].spawned /\ inst[i].lines = <<>>
    /\ inst[i].calls = <<>> /\ Children(i) = {}

\* C15: an instance whose condition does not evaluate, whose provisioning
\* fails, or whose command, pattern source or log file path does not
\* resolve (or whose pattern does not compile) ends failed at that point,
\* with no command started and no on-match or always call made; with a
\* pattern that does not compile it never gets as far as Popen.
C15_PreSpawnErrorsAreQuiet ==
    \A i \in Instances :
        /\ (inst[i].pc = "failed"
                /\ inst[i].err \in {"condition", "files", "cmd", "pattern", "logfile"})
                => Quiet(i)
        /\ (~Disabled(i) /\ Condition(i) = "error") =>
                /\ Quiet(i)
                /\ inst[i].pc \in {"pending", "failed"}
                /\ inst[i].pc = "failed" => inst[i].err = "condition"
        /\ (~Disabled(i) /\ Condition(i) \in {"absent", "true"} /\ PrepareFault(i)) =>
                /\ Quiet(i)
                /\ inst[i].pc \in {"pending", "unpack", "prepare", "failed"}
                /\ inst[i].pc = "failed" =>
                        inst[i].err \in {"files", "cmd", "pattern", "logfile"}

\* C15 witness: in one run an instance failed on its condition, one on its
\* files, one on its command template and one on a pattern that does not
\* compile, and a sibling of theirs ran its command to the end.
C15_Witness ==
    \E a, b, c, d, e \in Instances :
        /\ inst[a].pc = "failed" /\ inst[a].err = "condition"
        /\ inst[b].pc = "failed" /\ inst[b].err = "files"
        /\ inst[c].pc = "failed" /\ inst[c].err = "cmd"
        /\ inst[d].pc = "failed" /\ inst[d].err = "pattern"
        /\ ~format(Cfg(d).patterns[1].pattern, <<>>).ok
                \/ ~re_compile(Cfg(d).patterns[1].pattern).ok
        /\ inst[e].pc = "done" /\ inst[e].parent = inst[d].parent


RECURSIVE Flat(_)
\* The text of a sequence of lines.
Flat(lines) == IF lines = <<>> THEN <<>> ELSE Head(lines) \o Flat(Tail(lines))

\* Instance i has opened its log file.
Opened(i) == inst[i].logfile_fp # "none"

\* Instance i is the only instance of the run that has opened the path of
\* its log file.
SoleWriter(i) ==
    \A j \in Instances : (j # i /\ Opened(j)) => inst[j].logfile # inst[i].logfile

\* An instance whose open() failed is not ended by that: the warning is
\* logged, no file object is kept, and the lines are yielded and the calls
\* made as without a log file.
OpenFailureIsNotFatal(i) ==
    inst[i].warned =>
        /\ inst[i].logfile # <<>> /\ inst[i].logfile_fp = "none" /\ inst[i].spawned
        /\ inst[i].pc = "failed" => FailedMidStream(i)
        /\ inst[i].pc = "done" =>
                /\ inst[i].cursor = Len(inst[i].lines)
                /\ Calls(i, "on_match") = MatchOccurrences(i)
                /\ Len(Calls(i, "always")) = 1

\* C16 as claimed: once an instance that opened its log file has exhausted
\* the stream (and closed the file), the file holds exactly the lines the
\* instance was given, in order; and a failure to open the file is not
\* fatal.
C16_LogFileHoldsOutput ==
    \A i \in Instances :
        /\ inst[i].logfile_fp = "closed" =>
                /\ inst[i].cursor = Len(inst[i].lines)
                /\ fs[inst[i].logfile] = Flat(inst[i].lines)
        /\ OpenFailureIsNotFatal(i)

\* C16 as amended: as claimed, for an instance that is the only one of the
\* run to have opened the path; every instance that opens the same path
\* truncates the file and writes from its start.
C16_LogFileOfSoleWriter ==
    \A i \in Instances :
        /\ (inst[i].logfile_fp = "closed" /\ SoleWriter(i)) =>
                /\ inst[i].cursor = Len(inst[i].lines)
                /\ fs[inst[i].logfile] = Flat(inst[i].lines)
        /\ (inst[i].logfile_fp = "open" /\ SoleWriter(i) /\ inst[i].pc # "failed") =>
                /\ fs[inst[i].logfile] = <<>>
                /\ inst[i].buf = Flat(SubSeq(inst[i].lines, 1, inst[i].cursor))
        /\ OpenFailureIsNotFatal(i)

\* C16 witness: an instance has closed a log file that holds its one line
\* of output, started by an instance whose open() failed and which went on
\* to handle its whole output, matches included, and ended.
C16_Witness ==
    \E i, j \in Instances :
        /\ inst[i].parent = j
        /\ inst[i].logfile_fp = "closed" /\ SoleWriter(i)
        /\ Len(inst[i].lines) = 1 /\ fs[inst[i].logfile] = inst[i].lines[1]
        /\ inst[j].warned /\ inst[j].pc = "done"
        /\ Len(inst[j].lines) >= 1 /\ Calls(j, "on_match") # <<>>


\* The number of times instance i is in the list.
TimesIn(list, i) == Cardinality({k \in DOMAIN list : list[k] = i})

\* Instance i was started and its starter has not made the append yet.
BetweenStartAndAppend(i) ==
    IF inst[i].parent = 0 THEN main_pc = "run"
    ELSE inst[inst[i].parent].pc = "append" /\ inst[inst[i].parent].child = i

\* C17: every instance holds the one list the root was constructed with
\* (the root until its wait returns and rebinds its attribute); every
\* instance is in that list exactly once from the append of its starter on,
\* and not before; the list holds nothing else; and when the thread of an
\* instance has ended every instance it started is in the list.
C17_PoolHoldsEveryInstance ==
    /\ \A i \in Instances :
            /\ inst[i].thread_pool = 1 \/ (i = 1 /\ main_pc = "returned")
            /\ TimesIn(thread_pool[1], i) = IF BetweenStartAndAppend(i) THEN 0 ELSE 1
            /\ Terminated(i) => \A c \in Children(i) : TimesIn(thread_pool[1], c) = 1
    /\ inst # <<>> => \A k \in DOMAIN thread_pool[1] : thread_pool[1][k] \in Instances

\* C17 witness: all threads have ended and the list holds, between two
\* instances started by one instance, an instance started by another.
C17_Witness ==
    /\ inst # <<>> /\ \A i \in Instances : Terminated(i)
    /\ \E a, b, c \in DOMAIN thread_pool[1] :
            /\ a < b /\ b < c
            /\ inst[thread_pool[1][a]].parent = inst[thread_pool[1][c]].parent
            /\ inst[thread_pool[1][a]].parent # 0
            /\ inst[thread_pool[1][b]].parent # inst[thread_pool[1][a]].parent
            /\ inst[thread_pool[1][b]].parent # 0


\* What instance i has set off: its run_submodules calls, in order, and for
\* each instance it started the definition, the call and the starting scope.
Cascade(i) ==
    [calls |-> inst[i].calls,
     started |-> {[cfg |-> inst[c].cfg, via |-> inst[c].via, line |-> inst[c].line,
                   pattern |-> inst[c].pattern, var0 |-> inst[c].var0] :
                  c \in Children(i)}]

\* Instances i and j are two runs of one definition that began with the
\* same scope, read the same output and have both returned.
SameRun(i, j) ==
    /\ inst[i].cfg = inst[j].cfg /\ inst[i].var0 = inst[j].var0
    /\ inst[i].pc = "done" /\ inst[j].pc = "done"
    /\ inst[i].lines = inst[j].lines

InheritedPathOf(d, i) ==
    \E n \in DOMAIN inst[d].var0, k \in DOMAIN inst[i].tmp_files :
        inst[d].var0[n] = [str |-> TmpName(i, inst[i].tmp_files[k])]

\* C19: while the files an instance provisioned are gone, its command is
\* not running and no instance that descends from it and began with the
\* path of one of the files in its scope is still to run or running.
C19_FilesOutliveTheirUsers ==
    \A i \in Instances :
        inst[i].deleted =>
            /\ Terminated(i)
            /\ \A d \in Instances :
                    (BranchOf(d, i) # 0 /\ InheritedPathOf(d, i)) => Terminated(d)

=============================================================================
